---- MODULE Spec2Model ----
(***************************************************************************)
(* A model of the yoto-rs API client (src/src/api.rs): the credential and  *)
(* its expiry test, the device-authorization loop, the refresh exchange,   *)
(* the guarded API calls and the upload / transcode pipeline.              *)
(*                                                                         *)
(* Time is a single clock `now` in milliseconds.  The remote servers are   *)
(* the environment: every response is drawn from a small set inside the    *)
(* action that sends the request.  A Rust panic (unwrap / expect on an     *)
(* error) ends the process: pc = "crashed" and nothing happens afterwards. *)
(***************************************************************************)
EXTENDS Integers, Sequences, FiniteSets

VARIABLES
    now,        \* Utc::now(), in milliseconds
    token,      \* Client.token : Option<Token>
    pc,         \* where the single thread of control is
    op,         \* the Client method being run, or the last one run
    ret,        \* what that method returned ([kind |-> "none"] until it returns)
    net,        \* the HTTP requests sent by that method, in order, with their responses
    sleeps,     \* the durations (ms) of the sleeps made by that method, in order
    chk,        \* the last evaluation of Token::is_expired: its input and its result
    now0,       \* the clock when the method was called
    tok0,       \* Client.token when the method was called
    response,   \* auth(): the AuthResponse of the device-code request
    interval,   \* auth(): the local `interval`, in seconds
    path,       \* upload_audio_file(): the extension of `path`
    upload,     \* upload_audio_file(): the Upload session
    attempts,   \* wait_audio_transcode(): the local `attempts`
    mpc,        \* main(): where the command invocation is ("library": no main)
    cmd,        \* main(): the subcommand of the invocation
    refresh_status,     \* main(): the RefreshStatus that refresh_token returned to main
    entry       \* main(): the calls made on the keyring Entry, in order

clientvars == <<now, token, pc, op, ret, net, sleeps, chk, now0, tok0,
                response, interval, path, upload, attempts>>

mainvars == <<mpc, cmd, refresh_status, entry>>

vars == <<now, token, pc, op, ret, net, sleeps, chk, now0, tok0,
          response, interval, path, upload, attempts, mpc, cmd, refresh_status, entry>>

(***************************************************************************)
(* Bounds of the model.                                                    *)
(***************************************************************************)
MaxTime == 2          \* methods are called during the first MaxTime seconds
MaxAuthPolls == 3     \* token requests of one auth() call

(***************************************************************************)
(* Program constants.                                                      *)
(***************************************************************************)
GRACE_SECONDS == 30        \* TimeDelta::seconds(30)
SLOW_DOWN_SECONDS == 5     \* interval += 5
MAX_ATTEMPTS == 30         \* attempts >= 30
POLL_SLEEP_MILLIS == 500   \* Duration::from_millis(500)

Seconds(n) == n * 1000
Millis(n) == n

(***************************************************************************)
(* Option<Token>.  valid_until is an instant in ms.                        *)
(***************************************************************************)
None == [t |-> "None"]

Some(access, refresh, expires, until) ==
    [t |-> "Some", access_token |-> access, refresh_token |-> refresh,
     expires_in |-> expires, valid_until |-> until]

\* Token::is_expired, evaluated at clock reading `t`.
is_expired(tok, t) ==
    LET expiration == t + Seconds(GRACE_SECONDS)
    IN  tok.valid_until < expiration

\* What one evaluation of is_expired leaves in `chk`.
Checked(tok, t) ==
    [t |-> "Some", valid_until |-> tok.valid_until, now |-> t,
     result |-> is_expired(tok, t)]

(***************************************************************************)
(* HTTP responses.  A request either fails in transport (send() is Err) or *)
(* gets a status and a body; a body is garbage (no JSON object) or a JSON  *)
(* object of some shape.                                                   *)
(***************************************************************************)
TransportError == [t |-> "transport"]
Http(status, body) == [t |-> "http", status |-> status, body |-> body]

Garbage == [json |-> "garbage"]
EmptyObject == [json |-> "object"]
ErrorBody(e) == [json |-> "error", error |-> e]
TokenBody(access, refresh, expires) ==
    [json |-> "token", access_token |-> access, refresh_token |-> refresh,
     expires_in |-> expires]

Field(body, name, default) == IF name \in DOMAIN body THEN body[name] ELSE default

\* response.json::<Token>(): Token is #[serde(default)], so every JSON object
\* deserializes, absent fields taking their defaults; anything else is an Err.
json_Token(body) ==
    IF body.json = "garbage"
    THEN [kind |-> "Err"]
    ELSE [kind |-> "Ok",
          access_token |-> Field(body, "access_token", ""),
          refresh_token |-> Field(body, "refresh_token", ""),
          expires_in |-> Field(body, "expires_in", 0),
          valid_until |-> Field(body, "valid_until", 0)]

\* response.json::<AuthErrorMessage>(): `error` is a required field.
json_AuthErrorMessage(body) ==
    IF body.json = "error"
    THEN [kind |-> "Ok", error |-> body.error]
    ELSE [kind |-> "Err"]

(***************************************************************************)
(* Client::request_token, given the token endpoint's response `resp` and   *)
(* the clock reading `t` when the response has arrived.                    *)
(***************************************************************************)
request_token_trusts_payload(resp, t) ==
    IF resp = TransportError
    THEN [kind |-> "panic", msg |-> "send().unwrap()"]
    ELSE IF resp.status = 200
    THEN LET parsed == json_Token(resp.body)
         IN  IF parsed.kind = "Err"
             THEN [kind |-> "panic", msg |-> "json::<Token>().unwrap()"]
             ELSE [kind |-> "Ok",
                   token |-> Some(parsed.access_token, parsed.refresh_token,
                                  parsed.expires_in,
                                  parsed.valid_until)]
    ELSE IF resp.status = 403
    THEN LET error == json_AuthErrorMessage(resp.body)
         IN  IF error.kind = "Ok"
             THEN IF error.error = "authorization_pending"
                  THEN [kind |-> "Err", err |-> "Pending"]
                  ELSE IF error.error = "slow_down"
                  THEN [kind |-> "Err", err |-> "SlowDown"]
                  ELSE [kind |-> "Err", err |-> "Failed"]
             ELSE [kind |-> "Err", err |-> "Failed"]
    ELSE [kind |-> "Err", err |-> "Failed"]

request_token(resp, t) ==
    IF resp = TransportError
    THEN [kind |-> "panic", msg |-> "send().unwrap()"]
    ELSE IF resp.status = 200
    THEN LET parsed == json_Token(resp.body)
         IN  IF parsed.kind = "Err"
             THEN [kind |-> "panic", msg |-> "json::<Token>().unwrap()"]
             ELSE [kind |-> "Ok",
                   token |-> Some(parsed.access_token, parsed.refresh_token,
                                  parsed.expires_in,
                                  t + Seconds(parsed.expires_in))]
    ELSE IF resp.status = 403
    THEN LET error == json_AuthErrorMessage(resp.body)
         IN  IF error.kind = "Ok"
             THEN IF error.error = "authorization_pending"
                  THEN [kind |-> "Err", err |-> "Pending"]
                  ELSE IF error.error = "slow_down"
                  THEN [kind |-> "Err", err |-> "SlowDown"]
                  ELSE [kind |-> "Err", err |-> "Failed"]
             ELSE [kind |-> "Err", err |-> "Failed"]
    ELSE [kind |-> "Err", err |-> "Failed"]

\* What auth() and refresh_token leave in self.token after request_token has
\* returned `result` (not a panic): `self.token = Some(token)` in the Ok arm,
\* no assignment in any other arm.
assign_token_clears_on_failure(result, tok) ==
    IF result.kind = "Ok" THEN result.token ELSE None

assign_token(result, tok) ==
    IF result.kind = "Ok" THEN result.token ELSE tok

\* Client::ensure_token, at clock reading `t`.
ensure_token(tok, t) ==
    IF tok = None
    THEN [kind |-> "panic", msg |-> "Not authenticated"]
    ELSE IF is_expired(tok, t)
    THEN [kind |-> "None"]
    ELSE [kind |-> "Some", token |-> tok]

(***************************************************************************)
(* The environment: what the servers may answer, and how long an answer    *)
(* of the token endpoint may take.                                         *)
(***************************************************************************)
ExpiresIn == {31, 300}
\* A payload that also carries a valid_until member (Token derives Deserialize
\* for that field as for the others).
StampedTokenBody ==
    [json |-> "token", access_token |-> "at1", refresh_token |-> "rt1",
     expires_in |-> 300, valid_until |-> Seconds(7)]
TokenBodies == {TokenBody("at1", "rt1", e) : e \in ExpiresIn} \cup {StampedTokenBody}

TokenResponses ==
    {TransportError}
    \cup {Http(200, b) : b \in TokenBodies \cup {EmptyObject, Garbage}}
    \cup {Http(403, ErrorBody(e)) :
             e \in {"authorization_pending", "slow_down", "access_denied"}}
    \cup {Http(403, Garbage), Http(500, Garbage)}

\* The time a token request takes.  request_token reads the clock after a 200
\* response only, so a latency is drawn for those responses.
Latency(resp) ==
    IF resp # TransportError /\ resp.status = 200 THEN {0, Seconds(1)} ELSE {0}

Listing == [json |-> "listing"]
ApiResponses ==
    {TransportError, Http(200, Listing), Http(200, Garbage),
     Http(401, ErrorBody("unauthorized"))}

\* The credentials a client can be constructed with (Client::new).
InitTokens ==
    {None} \cup {Some("at0", "rt0", 300, Seconds(s)) : s \in {10, 30, 31, 300}}

NoRet == [kind |-> "none"]
Panic(msg) == [kind |-> "panic", msg |-> msg]
NoChk == [t |-> "None"]

Request(req, bearer, arg, resp) ==
    [req |-> req, bearer |-> bearer, arg |-> arg, resp |-> resp]

ClientInit ==
    /\ now = 0
    /\ token \in InitTokens
    /\ pc = "idle"
    /\ op = "none"
    /\ ret = NoRet
    /\ net = <<>>
    /\ sleeps = <<>>
    /\ chk = NoChk
    /\ now0 = 0
    /\ tok0 = None
    /\ response = None
    /\ interval = 0
    /\ path = [t |-> "None"]
    /\ upload = None
    /\ attempts = 0

\* The Client on its own: its methods are called in any order, by no main.
Init ==
    /\ ClientInit
    /\ mpc = "library"
    /\ cmd = "none"
    /\ refresh_status = "none"
    /\ entry = <<>>

\* The locals of auth() and of upload_audio_file() when those are not running.
NoAuthFrame == response' = None /\ interval' = 0
NoUploadFrame == path' = [t |-> "None"] /\ upload' = None /\ attempts' = 0

\* A Client method is called: the bookkeeping common to all of them.
Call(name) ==
    /\ pc = "idle"
    /\ now <= Seconds(MaxTime)
    /\ op' = name
    /\ now0' = now
    /\ tok0' = token
    /\ sleeps' = <<>>

\* Time passes between two calls.
Tick ==
    /\ pc = "idle"
    /\ now + Seconds(1) <= Seconds(MaxTime)
    /\ now' = now + Seconds(1)
    /\ UNCHANGED <<token, pc, op, ret, net, sleeps, chk, now0, tok0,
                   response, interval, path, upload, attempts>>

(***************************************************************************)
(* Client::refresh_token                                                   *)
(***************************************************************************)
refresh_token ==
    /\ Call("refresh_token")
    /\ NoAuthFrame /\ NoUploadFrame
    /\ IF token = None
       THEN /\ ret' = [kind |-> "Failed"]
            /\ net' = <<>>
            /\ chk' = NoChk
            /\ UNCHANGED <<now, token, pc>>
       ELSE /\ chk' = Checked(token, now)
            /\ IF ~is_expired(token, now)
               THEN /\ ret' = [kind |-> "AlreadyValid"]
                    /\ net' = <<>>
                    /\ UNCHANGED <<now, token, pc>>
               ELSE \E resp \in TokenResponses : \E d \in Latency(resp) :
                      LET result == request_token(resp, now + d)
                      IN  /\ now' = now + d
                          /\ net' = <<Request("POST token", "", [grant_type |-> "refresh_token",
                                                 refresh_token |-> token.refresh_token], resp)>>
                          /\ IF result.kind = "panic"
                             THEN /\ pc' = "crashed"
                                  /\ ret' = Panic(result.msg)
                                  /\ UNCHANGED token
                             ELSE /\ token' = assign_token(result, token)
                                  /\ ret' = IF result.kind = "Ok"
                                            THEN [kind |-> "Refreshed"]
                                            ELSE [kind |-> "Failed"]
                                  /\ UNCHANGED pc

(***************************************************************************)
(* The guarded API calls.  json(resp) says whether the declared response   *)
(* shape deserializes from the body.                                       *)
(***************************************************************************)
Endpoints == {"/device-v2/devices/mine", "/content/mine"}
ObjectEndpoints == {"/content/c1"}
Params == {"None", "playable"}

json_T(resp) == resp.body.json = "listing"

\* The part shared by the three calls: the check made by ensure_token().unwrap().
\* It leaves `chk` and, when the check panics, the crash.
Unauthenticated ==
    LET e == ensure_token(token, now)
    IN  /\ e.kind # "Some"
        /\ chk' = IF token = None THEN NoChk ELSE Checked(token, now)
        /\ pc' = "crashed"
        /\ ret' = Panic(IF e.kind = "panic" THEN e.msg ELSE "ensure_token().unwrap()")
        /\ net' = <<>>

Authenticated == ensure_token(token, now).kind = "Some"

get_objects ==
    /\ Call("get_objects")
    /\ NoAuthFrame /\ NoUploadFrame
    /\ UNCHANGED <<now, token>>
    /\ \/ Unauthenticated
       \/ /\ Authenticated
          /\ chk' = Checked(token, now)
          /\ \E endpoint \in Endpoints, resp \in ApiResponses :
               /\ net' = <<Request("GET", token.access_token, endpoint, resp)>>
               /\ IF resp = TransportError
                  THEN pc' = "crashed" /\ ret' = Panic("send().unwrap()")
                  ELSE IF ~json_T(resp)
                  THEN pc' = "crashed" /\ ret' = Panic("json::<T>().unwrap()")
                  ELSE pc' = pc /\ ret' = [kind |-> "Ok", val |-> resp.body]

get_object ==
    /\ Call("get_object")
    /\ NoAuthFrame /\ NoUploadFrame
    /\ UNCHANGED <<now, token>>
    /\ \/ Unauthenticated
       \/ /\ Authenticated
          /\ chk' = Checked(token, now)
          /\ \E endpoint \in ObjectEndpoints, params \in Params, resp \in ApiResponses :
               /\ net' = <<Request("GET", token.access_token,
                                   [endpoint |-> endpoint, query |-> params], resp)>>
               /\ IF resp = TransportError
                  THEN pc' = "crashed" /\ ret' = Panic("send().unwrap()")
                  ELSE IF ~json_T(resp)
                  THEN pc' = "crashed" /\ ret' = Panic("json::<T>().unwrap()")
                  ELSE pc' = pc /\ ret' = [kind |-> "Ok", val |-> resp.body]

delete_object ==
    /\ Call("delete_object")
    /\ NoAuthFrame /\ NoUploadFrame
    /\ UNCHANGED <<now, token>>
    /\ \/ Unauthenticated
       \/ /\ Authenticated
          /\ chk' = Checked(token, now)
          /\ \E endpoint \in ObjectEndpoints, resp \in ApiResponses :
               /\ net' = <<Request("DELETE", token.access_token, endpoint, resp)>>
               /\ IF resp = TransportError
                  THEN pc' = "crashed" /\ ret' = Panic("send().unwrap()")
                  ELSE pc' = pc /\ ret' = [kind |-> "Ok"]

(***************************************************************************)
(* Client::auth.  `auth` is the device-code request (lines 142-158), the   *)
(* action auth_loop one iteration of the loop (lines 159-175): a token     *)
(* request, the match on its result and the sleep of that arm.             *)
(***************************************************************************)
Intervals == {1, 5}
AuthBody(code, every, expires) ==
    [json |-> "auth", device_code |-> code, interval |-> every, expires_in |-> expires]

AuthResponses ==
    {TransportError, Http(200, Garbage), Http(400, ErrorBody("invalid_client"))}
    \cup {Http(200, AuthBody("dc1", i, 10)) : i \in Intervals}

\* response.json::<AuthResponse>(): every field is required.
json_AuthResponse(body) ==
    IF body.json = "auth" THEN [kind |-> "Ok", val |-> body] ELSE [kind |-> "Err"]

NoSleep == <<>>
Sleep(d) == <<d>>

\* The match of the loop body on the result of request_token: the new value of
\* `interval`, the sleep made (Sleep(seconds), NoSleep when the arm returns) and what
\* is returned (NoRet when the loop goes round again).
auth_match_pending_backs_off(result, every) ==
    IF result.kind = "Ok"
    THEN [interval |-> every, sleep |-> NoSleep, ret |-> [kind |-> "Ok"]]
    ELSE IF result.err \in {"Pending", "SlowDown"}
    THEN [interval |-> every + SLOW_DOWN_SECONDS,
          sleep |-> Sleep(every + SLOW_DOWN_SECONDS), ret |-> NoRet]
    ELSE [interval |-> every, sleep |-> NoSleep,
          ret |-> [kind |-> "Err", msg |-> "Failed to authenticate"]]

auth_match_pending_gives_up(result, every) ==
    IF result.kind = "Ok"
    THEN [interval |-> every, sleep |-> NoSleep, ret |-> [kind |-> "Ok"]]
    ELSE IF result.err = "SlowDown"
    THEN [interval |-> every + SLOW_DOWN_SECONDS,
          sleep |-> Sleep(every + SLOW_DOWN_SECONDS), ret |-> NoRet]
    ELSE [interval |-> every, sleep |-> NoSleep,
          ret |-> [kind |-> "Err", msg |-> "Failed to authenticate"]]

auth_match_retries_on_failure(result, every) ==
    IF result.kind = "Ok"
    THEN [interval |-> every, sleep |-> NoSleep, ret |-> [kind |-> "Ok"]]
    ELSE IF result.err = "SlowDown"
    THEN [interval |-> every + SLOW_DOWN_SECONDS,
          sleep |-> Sleep(every + SLOW_DOWN_SECONDS), ret |-> NoRet]
    ELSE [interval |-> every, sleep |-> Sleep(every), ret |-> NoRet]

auth_match_sleeps_before_increase(result, every) ==
    IF result.kind = "Ok"
    THEN [interval |-> every, sleep |-> NoSleep, ret |-> [kind |-> "Ok"]]
    ELSE IF result.err = "Pending"
    THEN [interval |-> every, sleep |-> Sleep(every), ret |-> NoRet]
    ELSE IF result.err = "SlowDown"
    THEN [interval |-> every + SLOW_DOWN_SECONDS, sleep |-> Sleep(every), ret |-> NoRet]
    ELSE [interval |-> every, sleep |-> NoSleep,
          ret |-> [kind |-> "Err", msg |-> "Failed to authenticate"]]

auth_match(result, every) ==
    IF result.kind = "Ok"
    THEN [interval |-> every, sleep |-> NoSleep, ret |-> [kind |-> "Ok"]]
    ELSE IF result.err = "Pending"
    THEN [interval |-> every, sleep |-> Sleep(every), ret |-> NoRet]
    ELSE IF result.err = "SlowDown"
    THEN [interval |-> every + SLOW_DOWN_SECONDS,
          sleep |-> Sleep(every + SLOW_DOWN_SECONDS), ret |-> NoRet]
    ELSE [interval |-> every, sleep |-> NoSleep,
          ret |-> [kind |-> "Err", msg |-> "Failed to authenticate"]]

auth ==
    /\ Call("auth")
    /\ NoUploadFrame
    /\ chk' = NoChk
    /\ UNCHANGED <<now, token>>
    /\ \E resp \in AuthResponses :
         /\ net' = <<Request("POST device/code", "", [scope |-> "profile"], resp)>>
         /\ IF resp = TransportError
            THEN /\ pc' = "crashed"
                 /\ ret' = Panic("send().unwrap()")
                 /\ NoAuthFrame
            ELSE IF json_AuthResponse(resp.body).kind = "Err"
            THEN /\ pc' = "crashed"
                 /\ ret' = Panic("json::<AuthResponse>().unwrap()")
                 /\ NoAuthFrame
            ELSE /\ response' = json_AuthResponse(resp.body).val
                 /\ interval' = json_AuthResponse(resp.body).val.interval
                 /\ pc' = "auth_loop"
                 /\ ret' = NoRet

TokenRequests(log) == SelectSeq(log, LAMBDA r : r.req = "POST token")

auth_loop ==
    /\ pc = "auth_loop"
    /\ Len(TokenRequests(net)) < MaxAuthPolls
    /\ UNCHANGED <<op, chk, now0, tok0, response, path, upload, attempts>>
    /\ \E resp \in TokenResponses : \E d \in Latency(resp) :
         LET result == request_token(resp, now + d)
         IN  /\ net' = Append(net, Request("POST token", "",
                            [grant_type |-> "device_code",
                             device_code |-> response.device_code], resp))
             /\ IF result.kind = "panic"
                THEN /\ pc' = "crashed"
                     /\ ret' = Panic(result.msg)
                     /\ now' = now + d
                     /\ UNCHANGED <<token, interval, sleeps>>
                ELSE LET m == auth_match(result, interval)
                     IN  /\ token' = assign_token(result, token)
                         /\ interval' = m.interval
                         /\ ret' = m.ret
                         /\ pc' = IF m.ret = NoRet THEN "auth_loop" ELSE "idle"
                         /\ IF m.sleep = NoSleep
                            THEN sleeps' = sleeps /\ now' = now + d
                            ELSE /\ sleeps' = Append(sleeps, Seconds(m.sleep[1]))
                                 /\ now' = now + d + Seconds(m.sleep[1])

(***************************************************************************)
(* MediaFormat (src/src/model.rs).                                         *)
(***************************************************************************)
from_ext(ext) ==
    IF ext = "mp3" THEN [kind |-> "Ok", val |-> "Mp3"]
    ELSE IF ext = "aac" THEN [kind |-> "Ok", val |-> "Aac"]
    ELSE IF ext = "ogg" THEN [kind |-> "Ok", val |-> "Ogg"]
    ELSE IF ext = "opus" THEN [kind |-> "Ok", val |-> "Opus"]
    ELSE [kind |-> "Err", msg |-> "Unsupported file extension"]

\* MediaFormat::Unknown is never built by from_ext and is left out.
content_type_ogg_as_opus(format) ==
    IF format = "Mp3" THEN "audio/mpeg"
    ELSE IF format = "Aac" THEN "audio/aac"
    ELSE "audio/opus"

content_type(format) ==
    IF format = "Mp3" THEN "audio/mpeg"
    ELSE IF format = "Aac" THEN "audio/aac"
    ELSE IF format = "Ogg" THEN "audio/ogg"
    ELSE "audio/opus"

(***************************************************************************)
(* Client::upload_audio_file.  Three actions, one per phase:               *)
(*   upload_audio_file     the call and request_audio_upload_url (386)     *)
(*   send_audio_file       the extension check, the read and the PUT (387) *)
(*   wait_audio_transcode  one iteration of the poll loop (371-382)        *)
(***************************************************************************)
NoExt == [t |-> "None"]
Ext(e) == [t |-> "Some", v |-> e]
Paths == {NoExt, Ext("mp3"), Ext("aac"), Ext("ogg"), Ext("opus"), Ext("wav"), Ext("MP3")}

UploadBody(id, url) == [json |-> "upload", id |-> id, url |-> url]
UploadUrlResponses ==
    {TransportError, Http(200, UploadBody("u1", "https://put/u1")),
     Http(200, Garbage), Http(401, ErrorBody("unauthorized"))}

PutResponses == {TransportError, Http(200, EmptyObject), Http(403, Garbage)}

\* {transcode: {transcodedSha256: string | absent}}
NoUri == [t |-> "None"]
Uri(u) == [t |-> "Some", v |-> u]
TranscodeBody(uri) == [json |-> "transcode", uri |-> uri]
TranscodeResponses ==
    {TransportError, Http(200, TranscodeBody(NoUri)), Http(200, TranscodeBody(Uri("sha1"))),
     Http(200, Garbage), Http(404, ErrorBody("not_found"))}

upload_audio_file ==
    /\ Call("upload_audio_file")
    /\ NoAuthFrame
    /\ attempts' = 0
    /\ chk' = NoChk
    /\ UNCHANGED <<now, token>>
    /\ \E p \in Paths :
         /\ path' = p
         /\ IF token = None
            THEN /\ pc' = "crashed"
                 /\ ret' = Panic("token.as_ref().unwrap()")
                 /\ net' = <<>>
                 /\ upload' = None
            ELSE \E resp \in UploadUrlResponses :
                   /\ net' = <<Request("GET uploadUrl", token.access_token,
                                       "/media/transcode/audio/uploadUrl", resp)>>
                   /\ IF resp = TransportError
                      THEN /\ pc' = "crashed"
                           /\ ret' = Panic("send().unwrap()")
                           /\ upload' = None
                      ELSE IF resp.body.json # "upload"
                      THEN /\ pc' = "crashed"
                           /\ ret' = Panic("json::<UploadResponse>().unwrap()")
                           /\ upload' = None
                      ELSE /\ pc' = "send_audio_file"
                           /\ ret' = NoRet
                           /\ upload' = [t |-> "Some", id |-> resp.body.id,
                                         url |-> resp.body.url]

\* match response.status() { StatusCode::OK => Ok(()), _ => Err(..) }
put_accepted_unless_server_error(resp) == resp.status < 500

put_accepted(resp) == resp.status = 200

send_audio_file ==
    /\ pc = "send_audio_file"
    /\ UNCHANGED <<now, token, op, sleeps, chk, now0, tok0,
                   response, interval, path, upload, attempts>>
    /\ IF path = NoExt
       THEN /\ ret' = [kind |-> "Err", msg |-> "File without extesnion"]
            /\ pc' = "idle"
            /\ net' = net
       ELSE IF from_ext(path.v).kind = "Err"
       THEN /\ ret' = [kind |-> "Err", msg |-> from_ext(path.v).msg]
            /\ pc' = "idle"
            /\ net' = net
       ELSE \E readable \in BOOLEAN :
              IF ~readable
              THEN /\ pc' = "crashed"
                   /\ ret' = Panic("fs::read(path).unwrap()")
                   /\ net' = net
              ELSE \E resp \in PutResponses :
                     /\ net' = Append(net, Request("PUT", "",
                                  [url |-> upload.url,
                                   content_type |-> content_type(from_ext(path.v).val)],
                                  resp))
                     /\ IF resp = TransportError
                        THEN pc' = "crashed" /\ ret' = Panic("send().unwrap()")
                        ELSE IF put_accepted(resp)
                        THEN pc' = "wait_audio_transcode" /\ ret' = NoRet
                        ELSE /\ pc' = "idle"
                             /\ ret' = [kind |-> "Err", msg |-> "Failed to upload file"]

\* attempts >= 30
budget_exhausted_one_late(n) == n > MAX_ATTEMPTS

budget_exhausted(n) == n >= MAX_ATTEMPTS

\* The body of the poll loop after the response has deserialized into `audio`:
\* what is returned (NoRet when the loop goes round again), the new value of
\* `attempts` and the sleep made (Sleep(ms) or NoSleep).
transcode_step_sleeps_first(audio, n) ==
    IF audio.uri # NoUri
    THEN [ret |-> [kind |-> "Ok", val |-> audio.uri.v], attempts |-> n,
          sleep |-> Sleep(Millis(POLL_SLEEP_MILLIS))]
    ELSE IF budget_exhausted(n + 1)
    THEN [ret |-> [kind |-> "Err", msg |-> "Error transcoding"],
          attempts |-> n + 1, sleep |-> NoSleep]
    ELSE [ret |-> NoRet, attempts |-> n + 1, sleep |-> Sleep(Millis(POLL_SLEEP_MILLIS))]

transcode_step(audio, n) ==
    IF audio.uri # NoUri
    THEN [ret |-> [kind |-> "Ok", val |-> audio.uri.v], attempts |-> n, sleep |-> NoSleep]
    ELSE IF budget_exhausted(n + 1)
    THEN [ret |-> [kind |-> "Err", msg |-> "Error transcoding"],
          attempts |-> n + 1, sleep |-> NoSleep]
    ELSE [ret |-> NoRet, attempts |-> n + 1, sleep |-> Sleep(Millis(POLL_SLEEP_MILLIS))]

\* The request built once before the loop (lines 358-369) and cloned for
\* every poll, with the response a poll gets.
poll_request_by_url(tok, up, resp) ==
    Request("GET transcoded", tok.access_token,
            [upload_id |-> up.url, loudnorm |-> "false"], resp)

poll_request(tok, up, resp) ==
    Request("GET transcoded", tok.access_token,
            [upload_id |-> up.id, loudnorm |-> "false"], resp)

wait_audio_transcode ==
    /\ pc = "wait_audio_transcode"
    /\ UNCHANGED <<token, op, chk, now0, tok0, response, interval, path, upload>>
    /\ \E resp \in TranscodeResponses :
         /\ net' = Append(net, poll_request(token, upload, resp))
         /\ IF resp = TransportError
            THEN /\ pc' = "crashed"
                 /\ ret' = Panic("execute().unwrap()")
                 /\ UNCHANGED <<now, sleeps, attempts>>
            ELSE IF resp.body.json # "transcode"
            THEN /\ pc' = "crashed"
                 /\ ret' = Panic("json::<TranscodeResponse>().unwrap()")
                 /\ UNCHANGED <<now, sleeps, attempts>>
            ELSE LET s == transcode_step(resp.body, attempts)
                 IN  /\ ret' = s.ret
                     /\ attempts' = s.attempts
                     /\ pc' = IF s.ret = NoRet THEN "wait_audio_transcode" ELSE "idle"
                     /\ IF s.sleep = NoSleep
                        THEN sleeps' = sleeps /\ now' = now
                        ELSE /\ sleeps' = Append(sleeps, s.sleep[1])
                             /\ now' = now + s.sleep[1]

Next ==
    \/ Tick /\ UNCHANGED mainvars
    \/ upload_audio_file /\ UNCHANGED mainvars
    \/ send_audio_file /\ UNCHANGED mainvars
    \/ wait_audio_transcode /\ UNCHANGED mainvars
    \/ auth /\ UNCHANGED mainvars
    \/ auth_loop /\ UNCHANGED mainvars
    \/ refresh_token /\ UNCHANGED mainvars
    \/ get_objects /\ UNCHANGED mainvars
    \/ get_object /\ UNCHANGED mainvars
    \/ delete_object /\ UNCHANGED mainvars

Spec == Init /\ [][Next]_vars

(***************************************************************************)
(* main (src/src/main.rs): one command invocation.  The credential is      *)
(* loaded from the keyring, the subcommand is matched, and the Client      *)
(* methods above are called from there.  `entry` logs the calls made on    *)
(* the keyring Entry after the load; a panic of main itself (an unwrap or  *)
(* expect in main.rs) ends the invocation in mpc = "panicked", as does a   *)
(* panic inside a Client method.                                           *)
(***************************************************************************)
Commands == {"login", "logout", "devices", "card list", "card info", "card", "upload"}

\* After Client::new (line 45): the stored credential, if one was read and
\* parsed, is in client.token.
MainInit ==
    /\ ClientInit
    /\ mpc = "start"
    /\ cmd \in Commands
    /\ refresh_status = "none"
    /\ entry = <<>>

\* store_token: entry.set_password(..).expect(..); `ok` is the keyring's answer.
set_password(password, ok) == [call |-> "set_password", password |-> password, ok |-> ok]
delete_credential == [call |-> "delete_credential"]

\* match client.auth() { Ok(()) => store_token(..), Err(_) => println!(..) }
login_match(r) == [store |-> r.kind = "Ok"]

\* match client.refresh_token() { AlreadyValid => (), Refreshed => store_token(..),
\* Failed => { println!(..); return; } }
refresh_match_stores_always(st) ==
    IF st = "AlreadyValid" THEN [store |-> TRUE, go_on |-> TRUE]
    ELSE IF st = "Refreshed" THEN [store |-> TRUE, go_on |-> TRUE]
    ELSE [store |-> FALSE, go_on |-> FALSE]

refresh_match_falls_back(st) ==
    IF st = "AlreadyValid" THEN [store |-> FALSE, go_on |-> TRUE]
    ELSE IF st = "Refreshed" THEN [store |-> TRUE, go_on |-> TRUE]
    ELSE [store |-> FALSE, go_on |-> TRUE]

refresh_match(st) ==
    IF st = "AlreadyValid" THEN [store |-> FALSE, go_on |-> TRUE]
    ELSE IF st = "Refreshed" THEN [store |-> TRUE, go_on |-> TRUE]
    ELSE [store |-> FALSE, go_on |-> FALSE]

\* client.upload_audio_file(..).unwrap()
upload_unwrap(r) == IF r.kind = "Ok" THEN "exit" ELSE "panicked"

\* Some(("login", _)): the device-code request of client.auth()
main_login ==
    /\ mpc = "start"
    /\ cmd = "login"
    /\ auth
    /\ mpc' = IF pc' = "crashed" THEN "panicked" ELSE "login"
    /\ UNCHANGED <<cmd, refresh_status, entry>>

\* One iteration of the loop of client.auth() and, when it returns, the match
\* on its result with store_token.
main_login_poll ==
    /\ mpc = "login"
    /\ auth_loop
    /\ UNCHANGED <<cmd, refresh_status>>
    /\ IF pc' = "crashed"
       THEN mpc' = "panicked" /\ entry' = entry
       ELSE IF pc' = "auth_loop"
       THEN mpc' = "login" /\ entry' = entry
       ELSE IF login_match(ret').store
       THEN \E ok \in BOOLEAN :
              /\ entry' = Append(entry, set_password(token', ok))
              /\ mpc' = IF ok THEN "exit" ELSE "panicked"
       ELSE mpc' = "exit" /\ entry' = entry

\* Some(("logout", _))
main_logout ==
    /\ mpc = "start"
    /\ cmd = "logout"
    /\ entry' = Append(entry, delete_credential)
    /\ mpc' = "exit"
    /\ UNCHANGED <<cmd, refresh_status>>
    /\ UNCHANGED clientvars

\* if client.token.is_none() { println!(..); return; }
main_not_authenticated ==
    /\ mpc = "start"
    /\ cmd \notin {"login", "logout"}
    /\ token = None
    /\ mpc' = "exit"
    /\ UNCHANGED <<cmd, refresh_status, entry>>
    /\ UNCHANGED clientvars

\* client.refresh_token() and the match on its result, with store_token.
main_refresh ==
    /\ mpc = "start"
    /\ cmd \notin {"login", "logout"}
    /\ token # None
    /\ refresh_token
    /\ UNCHANGED cmd
    /\ IF pc' = "crashed"
       THEN mpc' = "panicked" /\ refresh_status' = refresh_status /\ entry' = entry
       ELSE /\ refresh_status' = ret'.kind
            /\ IF refresh_match(ret'.kind).store
               THEN \E ok \in BOOLEAN :
                      /\ entry' = Append(entry, set_password(token', ok))
                      /\ mpc' = IF ok THEN "command" ELSE "panicked"
               ELSE /\ entry' = entry
                    /\ mpc' = IF refresh_match(ret'.kind).go_on THEN "command" ELSE "exit"

\* The time that passes between the return of refresh_token and the call the
\* command makes.
main_elapse ==
    /\ mpc = "command"
    /\ Tick
    /\ UNCHANGED mainvars

\* Some(("devices", _)) and Some(("card", ("list", _))): get_devices, get_cards
main_list ==
    /\ mpc = "command"
    /\ cmd \in {"devices", "card list"}
    /\ get_objects
    /\ net' # <<>> => net'[1].arg = IF cmd = "devices" THEN "/device-v2/devices/mine"
                                    ELSE "/content/mine"
    /\ mpc' = IF pc' = "crashed" THEN "panicked" ELSE "exit"
    /\ UNCHANGED <<cmd, refresh_status, entry>>

\* Some(("card", ("info" | "backup", arg))) with an id: client.get_card(id, false)
main_card ==
    /\ mpc = "command"
    /\ cmd = "card info"
    /\ get_object
    /\ net' # <<>> => net'[1].arg.query = "None"
    /\ mpc' = IF pc' = "crashed" THEN "panicked" ELSE "exit"
    /\ UNCHANGED <<cmd, refresh_status, entry>>

\* An invalid card command, a missing argument, any other subcommand.
main_nothing ==
    /\ mpc = "command"
    /\ cmd = "card"
    /\ mpc' = "exit"
    /\ UNCHANGED <<cmd, refresh_status, entry>>
    /\ UNCHANGED clientvars

\* Some(("upload", arg)) with a path: client.upload_audio_file(path).unwrap(),
\* one action per phase of the call.
main_upload ==
    /\ mpc = "command"
    /\ cmd = "upload"
    /\ upload_audio_file
    /\ mpc' = IF pc' = "crashed" THEN "panicked" ELSE "upload"
    /\ UNCHANGED <<cmd, refresh_status, entry>>

main_upload_send ==
    /\ mpc = "upload"
    /\ send_audio_file
    /\ mpc' = IF pc' = "crashed" THEN "panicked"
              ELSE IF pc' = "idle" THEN upload_unwrap(ret') ELSE "upload"
    /\ UNCHANGED <<cmd, refresh_status, entry>>

main_upload_wait ==
    /\ mpc = "upload"
    /\ wait_audio_transcode
    /\ mpc' = IF pc' = "crashed" THEN "panicked"
              ELSE IF pc' = "idle" THEN upload_unwrap(ret') ELSE "upload"
    /\ UNCHANGED <<cmd, refresh_status, entry>>

MainNext ==
    \/ main_login
    \/ main_login_poll
    \/ main_logout
    \/ main_not_authenticated
    \/ main_refresh
    \/ main_elapse
    \/ main_list
    \/ main_card
    \/ main_nothing
    \/ main_upload
    \/ main_upload_send
    \/ main_upload_wait

MainSpec == MainInit /\ [][MainNext]_vars

(***************************************************************************)
(* The Client on which only auth() is called.  auth() is straight-line     *)
(* code in one thread: once in its loop, the next iteration is taken       *)
(* (every sleep is finite), which is the weak fairness of auth_loop.       *)
(***************************************************************************)
AuthNext ==
    \/ auth /\ UNCHANGED mainvars
    \/ auth_loop /\ UNCHANGED mainvars

AuthSpec == Init /\ [][AuthNext]_vars /\ WF_vars(auth_loop /\ UNCHANGED mainvars)

(***************************************************************************)
(* What the claims read off the request log.  A response is classified by  *)
(* what the server sent, not by what the client made of it.                *)
(***************************************************************************)
TokenLog == TokenRequests(net)
PollLog == SelectSeq(net, LAMBDA r : r.req = "GET transcoded")

IsPending(r) ==
    r.resp # TransportError /\ r.resp.status = 403
        /\ r.resp.body = ErrorBody("authorization_pending")
IsSlowDown(r) ==
    r.resp # TransportError /\ r.resp.status = 403 /\ r.resp.body = ErrorBody("slow_down")
\* HTTP 200 with a well-formed credential payload
IsSuccess(r) ==
    r.resp # TransportError /\ r.resp.status = 200 /\ r.resp.body.json = "token"

NotReady(r) ==
    r.resp # TransportError /\ r.resp.body.json = "transcode" /\ r.resp.body.uri = NoUri
Ready(r) ==
    r.resp # TransportError /\ r.resp.body.json = "transcode" /\ r.resp.body.uri # NoUri

RECURSIVE Total(_)
Total(durations) ==
    IF durations = <<>> THEN 0 ELSE Head(durations) + Total(Tail(durations))

SlowDowns(i) == Cardinality({j \in 1..i : IsSlowDown(TokenLog[j])})

(***************************************************************************)
(* C1.  Token::is_expired returns true exactly when now + 30 s >=          *)
(* valid_until: every evaluation the client has made agrees with that      *)
(* rule (a token with exactly 30 s remaining is reported expired).         *)
(* Violated: with exactly 30 s remaining the code answers false.           *)
(***************************************************************************)
C1_ExpiredIffGraceReached ==
    chk # NoChk => (chk.result <=> (chk.now + 30000 >= chk.valid_until))

(***************************************************************************)
(* C2.  upload_audio_file with an extension outside mp3, aac, ogg, opus    *)
(* fails with the unsupported-extension error and has sent no request:     *)
(* no upload-URL GET, no PUT, no transcode poll.                           *)
(* Violated: the upload-URL GET is sent before the extension is looked at. *)
(***************************************************************************)
C2_UnsupportedExtensionSendsNothing ==
    (op = "upload_audio_file" /\ path.t = "Some"
        /\ path.v \notin {"mp3", "aac", "ogg", "opus"})
    => /\ net = <<>>
       /\ pc = "idle" => ret = [kind |-> "Err", msg |-> "Unsupported file extension"]

(***************************************************************************)
(* C3.  While the transcode-status resource has answered "not ready" to    *)
(* every poll: at most 30 polls are sent; every sleep lasts 500 ms; with   *)
(* fewer than 30 polls sent the loop is still running and has slept once   *)
(* after each poll; with 30 polls sent it has slept 29 times and has       *)
(* returned the transcode failure.                                         *)
(***************************************************************************)
C3_TimeoutAfterExactly30Polls ==
    (op = "upload_audio_file" /\ Len(PollLog) > 0
        /\ \A i \in 1..Len(PollLog) : NotReady(PollLog[i]))
    => /\ Len(PollLog) <= 30
       /\ \A i \in 1..Len(sleeps) : sleeps[i] = 500
       /\ IF Len(PollLog) < 30
          THEN /\ pc = "wait_audio_transcode"
               /\ ret = NoRet
               /\ Len(sleeps) = Len(PollLog)
          ELSE /\ pc = "idle"
               /\ ret = [kind |-> "Err", msg |-> "Error transcoding"]
               /\ Len(sleeps) = 29

C3_Witness ==
    /\ op = "upload_audio_file"
    /\ ret = [kind |-> "Err", msg |-> "Error transcoding"]
    /\ Len(PollLog) = 30
    /\ \A i \in 1..30 : NotReady(PollLog[i])
    /\ Len(sleeps) = 29

C5_PendingSleepsCurrentInterval ==
    op = "auth" =>
      /\ \A i \in 1..Len(TokenLog) :
           IsPending(TokenLog[i]) =>
             /\ Len(sleeps) >= i
             /\ sleeps[i] = IF i = 1 THEN 1000 * response.interval ELSE sleeps[i - 1]
             /\ i = Len(TokenLog) =>
                  /\ pc = "auth_loop"
                  /\ ret = NoRet
                  /\ 1000 * interval = sleeps[i]
      /\ (/\ Len(TokenLog) = 3
          /\ IsPending(TokenLog[1])
          /\ IsPending(TokenLog[2])
          /\ IsSuccess(TokenLog[3]))
         => /\ sleeps = <<1000 * response.interval, 1000 * response.interval>>
            /\ pc = "idle"
            /\ ret = [kind |-> "Ok"]
            /\ token.t = "Some"
            /\ token.access_token = TokenLog[3].resp.body.access_token
            /\ token.refresh_token = TokenLog[3].resp.body.refresh_token

C5_Witness ==
    /\ op = "auth"
    /\ Len(TokenLog) = 3
    /\ IsPending(TokenLog[1])
    /\ IsPending(TokenLog[2])
    /\ IsSuccess(TokenLog[3])
    /\ ret = [kind |-> "Ok"]
    /\ sleeps = <<5000, 5000>>

(***************************************************************************)
(* C6.  In auth(), the interval always equals the server-declared interval *)
(* plus 5 s for every slow_down received so far, and every sleep lasts the *)
(* interval as increased by the answers up to and including the one it     *)
(* follows: the increase is made before the sleep, is cumulative and never *)
(* reset, so the sleeps never get shorter.                                 *)
(***************************************************************************)
C6_IntervalIsInitialPlus5PerSlowDown ==
    (op = "auth" /\ response # None) =>
      /\ interval = response.interval + 5 * SlowDowns(Len(TokenLog))
      /\ \A i \in 1..Len(sleeps) :
           /\ sleeps[i] = 1000 * (response.interval + 5 * SlowDowns(i))
           /\ i > 1 => sleeps[i] >= sleeps[i - 1]
      /\ (Len(TokenLog) > 0 /\ IsSlowDown(TokenLog[1]))
         => sleeps[1] = 1000 * (response.interval + 5)

C6_Witness ==
    /\ op = "auth"
    /\ Len(TokenLog) = 3
    /\ IsSlowDown(TokenLog[1])
    /\ IsSlowDown(TokenLog[2])
    /\ IsSuccess(TokenLog[3])
    /\ response.interval = 5
    /\ sleeps = <<10000, 15000>>
    /\ interval = 15


(***************************************************************************)
(* C7.  In auth(), a token-endpoint outcome other than success,            *)
(* authorization_pending or slow_down (another error code, a malformed     *)
(* body, a transport failure) makes auth() return the authentication       *)
(* failure at once: the process goes on, no sleep follows that answer and  *)
(* no further token request is sent.                                       *)
(* Violated: on a transport failure, and on a 200 whose body is no JSON,   *)
(* request_token panics; a 200 whose JSON holds no credential is accepted. *)
(***************************************************************************)
C7_OtherOutcomeReturnsAuthFailure ==
    (op = "auth" /\ Len(TokenLog) > 0)
    => LET last == TokenLog[Len(TokenLog)]
       IN  (~IsSuccess(last) /\ ~IsPending(last) /\ ~IsSlowDown(last))
           => /\ pc = "idle"
              /\ ret = [kind |-> "Err", msg |-> "Failed to authenticate"]
              /\ Len(sleeps) = Len(TokenLog) - 1

(***************************************************************************)
(* C8.  refresh_token on a held credential: when the expiry is more than   *)
(* 30 s after the time of the call it returns AlreadyValid and sends       *)
(* nothing; otherwise it sends exactly one refresh-token grant request to  *)
(* the token endpoint.                                                     *)
(* Violated: with exactly 30 s remaining nothing is sent (see C1).         *)
(***************************************************************************)
C8_RefreshExactlyWhenWithin30s ==
    (op = "refresh_token" /\ tok0 # None)
    => IF tok0.valid_until > now0 + 30000
       THEN ret = [kind |-> "AlreadyValid"] /\ net = <<>>
       ELSE /\ Len(net) = 1
            /\ net[1].req = "POST token"
            /\ net[1].arg.grant_type = "refresh_token"

(***************************************************************************)
(* C9.  When the refresh exchange of a stale credential meets a transport  *)
(* failure, a non-200 response or a malformed payload, refresh_token       *)
(* returns Failed: the process goes on and the outcome is not Refreshed.   *)
(* Violated: on a transport failure, and on a 200 whose body is no JSON,   *)
(* request_token panics; a 200 whose JSON holds no credential is Refreshed.*)
(***************************************************************************)
C9_FailedExchangeReturnsFailed ==
    (op = "refresh_token" /\ Len(net) = 1 /\ ~IsSuccess(net[1]))
    => pc = "idle" /\ ret = [kind |-> "Failed"]

(***************************************************************************)
(* C10.  get_objects, get_object and delete_object called with no          *)
(* credential, or with one that is expired under the 30-second grace rule  *)
(* (now + 30 s >= valid_until), send no request and end with the           *)
(* unauthenticated outcome.                                                *)
(* Violated: with exactly 30 s remaining the request is sent (see C1).     *)
(***************************************************************************)
C10_NoRequestWithoutValidCredential ==
    (/\ op \in {"get_objects", "get_object", "delete_object"}
     /\ \/ tok0 = None
        \/ now0 + 30000 >= tok0.valid_until)
    => /\ net = <<>>
       /\ ret \in {Panic("Not authenticated"), Panic("ensure_token().unwrap()")}

(***************************************************************************)
(* C11.  Whatever the servers answer, a call of upload_audio_file that has *)
(* sent a request ends by returning the reference (Ok) or a failure value  *)
(* (Err): a remote error never ends the process.  The only panic left to   *)
(* the call is the local one, the file that cannot be read.                *)
(* Violated: a transport failure or a body of another shape in any of the  *)
(* three phases panics on an unwrap.                                       *)
(***************************************************************************)
C11_UploadReturnsReferenceOrFailure ==
    (op = "upload_audio_file" /\ net # <<>>
        /\ pc \notin {"send_audio_file", "wait_audio_transcode"})
    => \/ ret.kind \in {"Ok", "Err"}
       \/ ret = Panic("fs::read(path).unwrap()")

(***************************************************************************)
(* C13.  Once upload_audio_file has looked at the extension of the path:   *)
(* for mp3, aac, ogg and opus the Content-Type of the PUT is audio/mpeg,   *)
(* audio/aac, audio/ogg and audio/opus respectively (or the file could not *)
(* be read and nothing was put); for every other extension from_ext        *)
(* answers the unsupported-extension error, which the call returns, and no *)
(* PUT with any content type is sent.                                      *)
(***************************************************************************)
C13_ExtensionMapsToContentType ==
    (op = "upload_audio_file" /\ upload # None /\ path.t = "Some"
        /\ pc # "send_audio_file")
    => IF path.v \in {"mp3", "aac", "ogg", "opus"}
       THEN \/ Len(net) = 1 /\ ret = Panic("fs::read(path).unwrap()")
            \/ /\ Len(net) >= 2
               /\ net[2].req = "PUT"
               /\ net[2].arg.content_type =
                    CASE path.v = "mp3" -> "audio/mpeg"
                      [] path.v = "aac" -> "audio/aac"
                      [] path.v = "ogg" -> "audio/ogg"
                      [] path.v = "opus" -> "audio/opus"
       ELSE /\ Len(net) = 1
            /\ pc = "idle"
            /\ ret = [kind |-> "Err", msg |-> "Unsupported file extension"]
            /\ from_ext(path.v).kind = "Err"

C13_Witness ==
    /\ op = "upload_audio_file"
    /\ path = Ext("ogg")
    /\ Len(net) = 2
    /\ net[2].req = "PUT"
    /\ net[2].arg.content_type = "audio/ogg"

(***************************************************************************)
(* C14.  When the PUT of the file bytes is answered with a status other    *)
(* than 200, upload_audio_file has returned the upload failure, that PUT   *)
(* is the only PUT and the last request of the call: no transcode-status   *)
(* request follows it.                                                     *)
(***************************************************************************)
PutLog == SelectSeq(net, LAMBDA r : r.req = "PUT")

C14_RejectedPutEndsTheCall ==
    (op = "upload_audio_file"
        /\ \E i \in 1..Len(PutLog) :
             PutLog[i].resp # TransportError /\ PutLog[i].resp.status # 200)
    => /\ pc = "idle"
       /\ ret = [kind |-> "Err", msg |-> "Failed to upload file"]
       /\ Len(PutLog) = 1
       /\ net[Len(net)] = PutLog[1]
       /\ PollLog = <<>>

C14_Witness ==
    /\ op = "upload_audio_file"
    /\ Len(net) = 2
    /\ net[2].req = "PUT"
    /\ net[2].resp = Http(403, Garbage)
    /\ ret = [kind |-> "Err", msg |-> "Failed to upload file"]

(***************************************************************************)
(* C15.  Every bearer request of the upload pipeline is sent only while    *)
(* the held credential is not expired under the 30-second grace rule: the  *)
(* upload-URL GET, sent when the call starts, and poll i, sent after the   *)
(* i - 1 sleeps before it, each find valid_until more than 30 s away.      *)
(* Violated: request_audio_upload_url and wait_audio_transcode read        *)
(* self.token directly; is_expired is never evaluated.                     *)
(***************************************************************************)
C15_UploadRequestsPassTheCredentialCheck ==
    (op = "upload_audio_file" /\ net # <<>>)
    => /\ tok0 # None
       /\ ~(now0 + 30000 >= tok0.valid_until)
       /\ \A i \in 1..Len(PollLog) :
            ~(now0 + 500 * (i - 1) + 30000 >= tok0.valid_until)

(***************************************************************************)
(* C17 as stated.  While the token endpoint has answered                   *)
(* authorization_pending to every token request, auth() has returned the   *)
(* authentication failure as soon as its sleeps add up to the expires_in   *)
(* of the device-code response.                                            *)
(* Violated: expires_in is never read; the loop goes on.                   *)
(***************************************************************************)
AllPending ==
    /\ op = "auth"
    /\ response # None
    /\ Len(TokenLog) > 0
    /\ \A i \in 1..Len(TokenLog) : IsPending(TokenLog[i])

C17_PendingPastWindowIsFailure ==
    (AllPending /\ Total(sleeps) >= 1000 * response.expires_in)
    => /\ pc = "idle"
       /\ ret = [kind |-> "Err", msg |-> "Failed to authenticate"]

(***************************************************************************)
(* C17 amended.  While the token endpoint has answered                     *)
(* authorization_pending to every token request, auth() is still in its    *)
(* loop and has returned nothing, having slept once after every answer,    *)
(* whether or not the expires_in window of the device-code response has    *)
(* elapsed: the window sets no deadline.                                   *)
(***************************************************************************)
C17_PendingNeverEndsAuth ==
    AllPending
    => /\ pc = "auth_loop"
       /\ ret = NoRet
       /\ Len(sleeps) = Len(TokenLog)

C17_Witness ==
    /\ AllPending
    /\ Len(TokenLog) = 3
    /\ response.expires_in = 10
    /\ Total(sleeps) = 15000
    /\ pc = "auth_loop"

(***************************************************************************)
(* C19.  Every step that changes client.token is a step of auth() or of    *)
(* refresh_token whose last request is a token request answered 200; the   *)
(* new credential has the access token, refresh token and expires_in of    *)
(* that answer (absent members taking their defaults) and valid_until      *)
(* equal to the clock when the answer has arrived plus that expires_in,    *)
(* whatever the old credential and whatever valid_until the payload holds. *)
(***************************************************************************)
C19_InstalledCredentialIsFreshlyStamped ==
    [][token' # token =>
         LET r == net'[Len(net')]
         IN  /\ op' \in {"auth", "refresh_token"}
             /\ r.req = "POST token"
             /\ r.resp # TransportError
             /\ r.resp.status = 200
             /\ token'.t = "Some"
             /\ token'.access_token = Field(r.resp.body, "access_token", "")
             /\ token'.refresh_token = Field(r.resp.body, "refresh_token", "")
             /\ token'.expires_in = Field(r.resp.body, "expires_in", 0)
             /\ token'.valid_until = now' + 1000 * token'.expires_in
             /\ DOMAIN token' = DOMAIN Some("", "", 0, 0)]_vars

C19_Witness ==
    /\ op = "refresh_token"
    /\ ret = [kind |-> "Refreshed"]
    /\ tok0 = Some("at0", "rt0", 300, 10000)
    /\ net[1].resp = Http(200, StampedTokenBody)
    /\ now = now0 + 1000
    /\ token = Some("at1", "rt1", 300, now0 + 301000)

(***************************************************************************)
(* C20.  In a call of upload_audio_file made with a credential held, the   *)
(* first request is the upload-URL GET and there is no other; the second,  *)
(* if any, is the PUT and there is no other; every later one is a poll     *)
(* carrying the upload id of the answer to the first request.  Only the    *)
(* last request can be one that failed: after a failure nothing is sent.   *)
(***************************************************************************)
C20_OneGetOnePutThenPolls ==
    (op = "upload_audio_file" /\ tok0 # None)
    => /\ Len(net) >= 1
       /\ \A i \in 1..Len(net) :
            /\ net[i].req = IF i = 1 THEN "GET uploadUrl"
                            ELSE IF i = 2 THEN "PUT" ELSE "GET transcoded"
            /\ i < Len(net) =>
                 /\ net[i].resp # TransportError
                 /\ net[i].resp.status = 200
                 /\ i = 1 => net[i].resp.body.json = "upload"
                 /\ i > 2 => NotReady(net[i])
            /\ i > 2 => net[i].arg.upload_id = net[1].resp.body.id
       /\ Len(SelectSeq(net, LAMBDA r : r.req = "GET uploadUrl")) = 1
       /\ Len(PutLog) <= 1

C20_Witness ==
    /\ op = "upload_audio_file"
    /\ Len(net) = 4
    /\ net[3].arg.upload_id = "u1"
    /\ net[4].arg.upload_id = "u1"
    /\ net[4].resp = Http(404, ErrorBody("not_found"))
    /\ pc = "crashed"

(***************************************************************************)
(* C12.  In a command invocation set_password is called at most once, and  *)
(* it has been called exactly when the login command's auth() has returned *)
(* Ok or when, in a command that needs authentication, refresh_token has   *)
(* returned Refreshed; what is saved is the credential then held by the    *)
(* client.  In every other case (AlreadyValid, Failed, a failed login,     *)
(* logout, no stored credential) nothing has been saved.                   *)
(***************************************************************************)
Saves == SelectSeq(entry, LAMBDA e : e.call = "set_password")

C12_SavedExactlyOnAcquisitionOrRefresh ==
    /\ Len(Saves) <= 1
    /\ Len(Saves) = 1 <=>
         \/ cmd = "login" /\ op = "auth" /\ ret = [kind |-> "Ok"]
         \/ cmd \notin {"login", "logout"} /\ refresh_status = "Refreshed"
    /\ Len(Saves) = 1 => Saves[1].password = token

C12_Witness ==
    /\ cmd = "devices"
    /\ refresh_status = "Refreshed"
    /\ mpc = "command"
    /\ entry = <<set_password(token, TRUE)>>

(***************************************************************************)
(* C16.  In a command invocation, after refresh_token has returned         *)
(* AlreadyValid or Refreshed, every evaluation of is_expired made by a     *)
(* later call (through ensure_token) answers "not expired".                *)
(* Violated: the credential only had to be valid when refresh_token looked *)
(* at it; nothing keeps it valid until the command's call checks it again. *)
(***************************************************************************)
C16_NoExpiryAfterRefresh ==
    (/\ refresh_status \in {"AlreadyValid", "Refreshed"}
     /\ op # "refresh_token"
     /\ chk # NoChk)
    => ~chk.result

(***************************************************************************)
(* C18.  When refresh_token has returned Failed to main, the invocation    *)
(* has ended there: refresh_token is the last Client method called, the    *)
(* only request sent is the refresh exchange, which carries no bearer      *)
(* token, and nothing has been saved to the keyring.                       *)
(***************************************************************************)
C18_FailedRefreshEndsInvocation ==
    refresh_status = "Failed"
    => /\ mpc = "exit"
       /\ op = "refresh_token"
       /\ entry = <<>>
       /\ Len(net) = 1
       /\ net[1].req = "POST token"
       /\ net[1].bearer = ""

C18_Witness ==
    /\ refresh_status = "Failed"
    /\ cmd = "upload"
    /\ mpc = "exit"
    /\ net[1].resp = Http(500, Garbage)
    /\ token = tok0

(***************************************************************************)
(* C21.  client.token differs from its value at the start of the current   *)
(* call only when that call is auth() and has returned Ok, or is           *)
(* refresh_token and has returned Refreshed: while auth() runs, when it    *)
(* returns Err, when refresh_token returns Failed or AlreadyValid, and in  *)
(* every other method, the credential is the one held before the call.     *)
(***************************************************************************)
C21_FailedOperationKeepsCredential ==
    /\ (op = "auth" /\ ret # [kind |-> "Ok"]) => token = tok0
    /\ (op = "refresh_token" /\ ret # [kind |-> "Refreshed"]) => token = tok0
    /\ op \notin {"auth", "refresh_token", "none"} => token = tok0

C21_Witness ==
    /\ op = "auth"
    /\ ret = [kind |-> "Err", msg |-> "Failed to authenticate"]
    /\ Len(TokenLog) = 2
    /\ IsPending(TokenLog[1])
    /\ tok0 = Some("at0", "rt0", 300, 10000)
    /\ token = tok0

(***************************************************************************)
(* C22.  Once the token endpoint has answered a poll of auth() with        *)
(* something other than authorization_pending or slow_down, auth() has     *)
(* ended (it has returned, or the process has ended with it): that answer  *)
(* is the last token request of the call, and when it is a success auth()  *)
(* has returned Ok with client.token set from it.  And an auth() in its    *)
(* loop does get its next answer: it ends, or it has sent MaxAuthPolls     *)
(* token requests without a terminal answer.                               *)
(***************************************************************************)
Terminal(r) == ~IsPending(r) /\ ~IsSlowDown(r)

C22_TerminalAnswerIsLast ==
    (op = "auth" /\ \E i \in 1..Len(TokenLog) : Terminal(TokenLog[i]))
    => LET last == TokenLog[Len(TokenLog)]
       IN  /\ \A i \in 1..(Len(TokenLog) - 1) : ~Terminal(TokenLog[i])
           /\ pc \in {"idle", "crashed"}
           /\ ret # NoRet
           /\ IsSuccess(last) =>
                /\ pc = "idle"
                /\ ret = [kind |-> "Ok"]
                /\ token.t = "Some"
                /\ token.access_token = last.resp.body.access_token

C22_TerminalAnswerEndsAuth ==
    /\ []C22_TerminalAnswerIsLast
    /\ (pc = "auth_loop") ~> (pc # "auth_loop" \/ Len(TokenLog) >= MaxAuthPolls)

C22_Witness ==
    /\ op = "auth"
    /\ Len(TokenLog) = 2
    /\ IsSlowDown(TokenLog[1])
    /\ IsSuccess(TokenLog[2])
    /\ pc = "idle"
    /\ ret = [kind |-> "Ok"]
    /\ token.access_token = "at1"

====
